---------------------------- MODULE Spec2Model ----------------------------
(***************************************************************************)
(* Model of src/Water_evaporated.py: the input normalisers                 *)
(* (_parse_minutes, _parse_temperature, _contains_water,                   *)
(* _water_ml_from_item), the hybrid evaporation estimate                   *)
(* (calculate_evaporated_water_hybrid) and the "Calculate Evaporation"     *)
(* button handler.                                                         *)
(*                                                                         *)
(* Conventions.                                                            *)
(*  - A Python str is a sequence of one-character strings.                 *)
(*  - A JSON value is a record [kind, chars, n]: kind "none" (null or      *)
(*    literal), "absent" (a key the object lacks), "str" (chars), "int"    *)
(*    (n) or "other" (the empty list [], standing for a non-scalar).       *)
(*  - Numbers are integers: millilitres/grams, minutes, whole degrees      *)
(*    Celsius, watts, efficiency in percent.  Evaporated mass is kept in   *)
(*    centigrams (RES per gram), fractions and the temperature factor in   *)
(*    parts per million; each division rounds down.                        *)
(***************************************************************************)
EXTENDS Integers, Sequences, FiniteSets, TLC

VARIABLES
    s, minutes, ppc,                 \* _parse_minutes: argument, result, position
    item, ml, upc,                   \* _water_ml_from_item: argument, result, position
    call, ret, prev, lastOp,         \* calculate_evaporated_water_hybrid calls
    click, msgs, direct_water_total_ml, core   \* handler: input, messages, water sum, core call

parseVars   == <<s, minutes, ppc>>
unitVars    == <<item, ml, upc>>
hybridVars  == <<call, ret, prev, lastOp>>
handlerVars == <<click, msgs, direct_water_total_ml, core>>
vars        == <<s, minutes, ppc, item, ml, upc, call, ret, prev, lastOp,
                 click, msgs, direct_water_total_ml, core>>

---------------------------------------------------------------------------
(* Python values and strings *)

None      == [kind |-> "none",  chars |-> <<>>, n |-> 0]
Str(cs)   == [kind |-> "str",   chars |-> cs,   n |-> 0]
Num(k)    == [kind |-> "int",   chars |-> <<>>, n |-> k]
Other     == [kind |-> "other", chars |-> <<>>, n |-> 0]
Absent    == [kind |-> "absent", chars |-> <<>>, n |-> 0]

\* dict.get(key, default) and dict.get(key): v is the stored value or Absent
get(v, default) == IF v.kind = "absent" THEN default ELSE v
get_or_none(v)  == get(v, None)

DigitChars == <<"0", "1", "2", "3", "4", "5", "6", "7", "8", "9">>
UpperChars == <<"A", "B", "C", "D", "E", "F", "G", "H", "I", "J", "K", "L", "M",
                "N", "O", "P", "Q", "R", "S", "T", "U", "V", "W", "X", "Y", "Z">>
LowerChars == <<"a", "b", "c", "d", "e", "f", "g", "h", "i", "j", "k", "l", "m",
                "n", "o", "p", "q", "r", "s", "t", "u", "v", "w", "x", "y", "z">>

IsDigit(c) == \E i \in 1..Len(DigitChars) : DigitChars[i] = c
IsSpace(c) == c \in {" ", "\t", "\n"}
DigitVal(c) == (CHOOSE i \in 1..Len(DigitChars) : DigitChars[i] = c) - 1

\* str.lower(), one character
LowerChar(c) ==
    IF \E i \in 1..Len(UpperChars) : UpperChars[i] = c
    THEN LowerChars[CHOOSE i \in 1..Len(UpperChars) : UpperChars[i] = c]
    ELSE c

\* str.lower()
lower(cs) == [i \in 1..Len(cs) |-> LowerChar(cs[i])]

\* str.strip(): leading and trailing whitespace removed
strip(cs) ==
    LET keep == {i \in 1..Len(cs) : ~IsSpace(cs[i])}
    IN  IF keep = {} THEN <<>>
        ELSE LET lo == CHOOSE i \in keep : \A j \in keep : i <= j
                 hi == CHOOSE i \in keep : \A j \in keep : j <= i
             IN  SubSeq(cs, lo, hi)

\* int() of a string of ASCII digits
RECURSIVE StrToInt(_)
StrToInt(ds) ==
    IF ds = <<>> THEN 0
    ELSE StrToInt(SubSeq(ds, 1, Len(ds) - 1)) * 10 + DigitVal(ds[Len(ds)])

\* str() of a non-negative int
RECURSIVE NatToStr(_)
NatToStr(k) ==
    IF k < 10 THEN <<DigitChars[k + 1]>>
    ELSE NatToStr(k \div 10) \o <<DigitChars[(k % 10) + 1]>>

\* str(): of None, of a str, of an int, of the empty list
str(v) ==
    CASE v.kind = "none"  -> <<"N", "o", "n", "e">>
      [] v.kind = "str"   -> v.chars
      [] v.kind = "int"   -> IF v.n < 0 THEN <<"-">> \o NatToStr(0 - v.n) ELSE NatToStr(v.n)
      [] v.kind = "other" -> <<"[", "]">>

\* Python truthiness of a JSON value ("not s" is its negation)
Truthy(v) ==
    CASE v.kind \in {"none", "absent"} -> FALSE
      [] v.kind = "str"   -> v.chars # <<>>
      [] v.kind = "int"   -> v.n # 0
      [] v.kind = "other" -> FALSE

\* \d+ from i: the end (exclusive) of the longest run of digits starting at i
DigitsEnd(cs, i) ==
    CHOOSE j \in i..(Len(cs) + 1) :
        /\ \A k \in i..(j - 1) : IsDigit(cs[k])
        /\ (j = Len(cs) + 1 \/ ~IsDigit(cs[j]))

\* \s* from i: the end (exclusive) of the longest run of whitespace starting at i
SpacesEnd(cs, i) ==
    CHOOSE j \in i..(Len(cs) + 1) :
        /\ \A k \in i..(j - 1) : IsSpace(cs[k])
        /\ (j = Len(cs) + 1 \/ ~IsSpace(cs[j]))

NoMatch == [found |-> FALSE, group |-> <<>>]

\* re.search(r"(\d+)\s*<c>", text): the leftmost start from which greedy digits,
\* then greedy whitespace, are followed by the letter c; group(1) is the digits.
\* (Backtracking finds no other match: a shorter digit or whitespace run is
\* followed by a digit or a whitespace character, never by c.)
search_digits_then(text, c) ==
    LET MatchAt(i) ==
            /\ IsDigit(text[i])
            /\ LET k == SpacesEnd(text, DigitsEnd(text, i))
               IN  k <= Len(text) /\ text[k] = c
        starts == {i \in 1..Len(text) : MatchAt(i)}
    IN  IF starts = {} THEN NoMatch
        ELSE LET i == CHOOSE x \in starts : \A y \in starts : x <= y
             IN  [found |-> TRUE, group |-> SubSeq(text, i, DigitsEnd(text, i) - 1)]

\* re.search(r"(\d+)", text): the leftmost maximal run of digits
search_digits(text) ==
    LET starts == {i \in 1..Len(text) : IsDigit(text[i])}
    IN  IF starts = {} THEN NoMatch
        ELSE LET i == CHOOSE x \in starts : \A y \in starts : x <= y
             IN  [found |-> TRUE, group |-> SubSeq(text, i, DigitsEnd(text, i) - 1)]

---------------------------------------------------------------------------
(* _parse_minutes *)

\* a slip in the precedence: the bare integer is tried before the h/m pattern
_parse_minutes_bare_first(v) ==
    IF ~Truthy(v) THEN 0
    ELSE LET text  == lower(str(v))
             first == search_digits(text)
         IN  IF first.found THEN StrToInt(first.group) ELSE 0

_parse_minutes(v) ==
    IF ~Truthy(v) THEN 0
    ELSE LET text  == lower(str(v))
             h     == search_digits_then(text, "h")
             m     == search_digits_then(text, "m")
             first == search_digits(text)
         IN  IF h.found \/ m.found
             THEN LET hours == IF h.found THEN StrToInt(h.group) ELSE 0
                      mins  == IF m.found THEN StrToInt(m.group) ELSE 0
                  IN  hours * 60 + mins
             ELSE IF first.found THEN StrToInt(first.group) ELSE 0

---------------------------------------------------------------------------
(* float(), _parse_temperature *)

Raised(e) == [ok |-> FALSE, val |-> 0, err |-> e]
Value(x)  == [ok |-> TRUE,  val |-> x, err |-> ""]

\* [+-]?\d+ after strip(): the numerals float() accepts among the strings of
\* the model (no ".", exponent, "_", "inf" or "nan" occurs in any input set)
IsSignedInt(t) ==
    /\ t # <<>>
    /\ LET body == IF t[1] \in {"-", "+"} THEN Tail(t) ELSE t
       IN  body # <<>> /\ \A i \in 1..Len(body) : IsDigit(body[i])

SignedIntVal(t) ==
    IF t[1] = "-" THEN 0 - StrToInt(Tail(t))
    ELSE IF t[1] = "+" THEN StrToInt(Tail(t))
    ELSE StrToInt(t)

\* float(v): a number converts, a numeral string converts, anything else raises
float(v) ==
    CASE v.kind = "int" -> Value(v.n)
      [] v.kind = "str" ->
            LET t == strip(v.chars)
            IN  IF IsSignedInt(t) THEN Value(SignedIntVal(t)) ELSE Raised("ValueError")
      [] OTHER -> Raised("TypeError")

\* re.search(r"(-?\d+(\.\d+)?)", text).group(1): the leftmost digit run, with
\* the "-" right before it when there is one (no "." occurs in any input set)
search_number(text) ==
    LET d == search_digits(text)
    IN  IF ~d.found THEN NoMatch
        ELSE LET i == CHOOSE x \in 1..Len(text) :
                          IsDigit(text[x]) /\ \A y \in 1..(x - 1) : ~IsDigit(text[y])
             IN  IF i > 1 /\ text[i - 1] = "-"
                 THEN [found |-> TRUE, group |-> <<"-">> \o d.group]
                 ELSE d

\* _parse_temperature: Raised("None") stands for the returned None
_parse_temperature(v) ==
    IF v.kind = "none" THEN Raised("None")
    ELSE LET f == float(v)
             m == search_number(str(v))
         IN  IF f.ok THEN f
             ELSE IF m.found THEN Value(SignedIntVal(m.group)) ELSE Raised("None")

---------------------------------------------------------------------------
(* _contains_water, _water_ml_from_item *)

Contains(hay, needle) ==
    \E i \in 1..(Len(hay) - Len(needle) + 1) :
        SubSeq(hay, i, i + Len(needle) - 1) = needle

WATER == <<"w", "a", "t", "e", "r">>

\* an ingredient entry: a JSON object with name, quantity and unit (each a
\* value or Absent), or something that is no object (isDict = FALSE)
Item(nm, q, u) == [isDict |-> TRUE,  name |-> nm,     quantity |-> q,      unit |-> u]
NotAnObject    == [isDict |-> FALSE, name |-> Absent, quantity |-> Absent, unit |-> Absent]

\* the match is case-sensitive: .lower() is forgotten
_contains_water_case_sensitive(name) ==
    LET nm == IF Truthy(name) THEN name ELSE Str(<<>>)
    IN  IF nm.kind # "str" THEN Raised("AttributeError")
        ELSE [ok |-> TRUE, val |-> Contains(strip(nm.chars), WATER), err |-> ""]

\* _contains_water: (name or "") must be a str for .strip() not to raise
_contains_water(name) ==
    LET nm == IF Truthy(name) THEN name ELSE Str(<<>>)
    IN  IF nm.kind # "str" THEN Raised("AttributeError")
        ELSE [ok |-> TRUE, val |-> Contains(lower(strip(nm.chars)), WATER), err |-> ""]

CUP_ML  == 240
TBSP_ML == 15
TSP_ML  == 5

\* a liter branch is added to the chain: "l" and units that start with "liter"
_unit_table_with_liters(qty, unit) ==
    IF unit \in {<<>>, <<"m", "l">>, <<"g">>} THEN qty
    ELSE IF unit = <<"c", "u", "p">> THEN qty * CUP_ML
    ELSE IF unit \in {<<"t", "b", "s", "p">>,
                      <<"t", "a", "b", "l", "e", "s", "p", "o", "o", "n">>}
         THEN qty * TBSP_ML
    ELSE IF unit \in {<<"t", "s", "p">>,
                      <<"t", "e", "a", "s", "p", "o", "o", "n">>}
         THEN qty * TSP_ML
    ELSE IF unit = <<"l">>
            \/ (Len(unit) >= 5 /\ SubSeq(unit, 1, 5) = <<"l", "i", "t", "e", "r">>)
         THEN qty * 1000
    ELSE 0

\* the chain of unit tests of _water_ml_from_item, on the normalised unit
_unit_table(qty, unit) ==
    IF unit \in {<<>>, <<"m", "l">>, <<"g">>} THEN qty
    ELSE IF unit = <<"c", "u", "p">> THEN qty * CUP_ML
    ELSE IF unit \in {<<"t", "b", "s", "p">>,
                      <<"t", "a", "b", "l", "e", "s", "p", "o", "o", "n">>}
         THEN qty * TBSP_ML
    ELSE IF unit \in {<<"t", "s", "p">>,
                      <<"t", "e", "a", "s", "p", "o", "o", "n">>}
         THEN qty * TSP_ML
    ELSE 0

\* the unit is compared as written: .strip().lower() is forgotten
_water_ml_from_item_raw_unit(it) ==
    IF ~it.isDict THEN 0
    ELSE LET qty  == float(get(it.quantity, Num(0)))
             unit == str(get(it.unit, Str(<<>>)))
         IN  IF ~qty.ok THEN 0
             ELSE _unit_table(qty.val, unit)

\* _water_ml_from_item: item.get on a non-object and float() of a bad quantity
\* raise inside the try and give 0.0
_water_ml_from_item(it) ==
    IF ~it.isDict THEN 0
    ELSE LET qty  == float(get(it.quantity, Num(0)))
             unit == lower(strip(str(get(it.unit, Str(<<>>)))))
         IN  IF ~qty.ok THEN 0
             ELSE _unit_table(qty.val, unit)

---------------------------------------------------------------------------
(* calculate_evaporated_water_hybrid *)

SPECIFIC_HEAT_WATER == 4186
LATENT_HEAT_WATER   == 2257000
INITIAL_TEMP_C      == 25
GENERIC_POWER_W     == 1500
\* 0.45, in percent
GENERIC_EFFICIENCY  == 45

\* the base of the sub-boiling ramp, the 70.0 of _temp_factor
RAMP_START_C == 70

ALLOWED_COOKING_METHODS == {"Boiling", "Steaming", "Pressure Cooking", "Slow Cooking"}

\* EVAPORATION_BASE: fraction in percent, base_time in minutes
EVAPORATION_BASE ==
    [m \in ALLOWED_COOKING_METHODS |->
        CASE m = "Boiling"          -> [fraction |-> 10, base_time |-> 10]
          [] m = "Steaming"         -> [fraction |-> 5,  base_time |-> 10]
          [] m = "Pressure Cooking" -> [fraction |-> 1,  base_time |-> 10]
          [] m = "Slow Cooking"     -> [fraction |-> 8,  base_time |-> 60]]

PHASE_TEMP_BY_METHOD ==
    [m \in ALLOWED_COOKING_METHODS |->
        CASE m = "Boiling"          -> 100
          [] m = "Steaming"         -> 100
          [] m = "Pressure Cooking" -> 105
          [] m = "Slow Cooking"     -> 100]

\* units of the fixed-point results: centigrams per gram, parts per million of
\* a fraction or factor, thousandths of a square root
RES   == 100
PPM   == 1000000
MILLI == 1000

Min2(a, b) == IF a <= b THEN a ELSE b
Max2(a, b) == IF a >= b THEN a ELSE b

\* the integer square root, by bisection: the r with r*r <= x < (r+1)*(r+1)
RECURSIVE ISqrtIn(_, _, _)
ISqrtIn(x, lo, hi) ==
    IF lo >= hi THEN lo
    ELSE LET mid == (lo + hi + 1) \div 2
         IN  IF mid * mid <= x THEN ISqrtIn(x, mid, hi) ELSE ISqrtIn(x, lo, mid - 1)

\* t ** 1.5 for t = num / den with 0 <= num <= den, in parts per million:
\* (num / den) ** 1.5 = num * sqrt(num * den) / den ** 2, the square root taken
\* in thousandths
pow_1_5(num, den) ==
    (num * ISqrtIn(num * den * MILLI * MILLI, 0, den * MILLI) * MILLI) \div (den * den)

\* the ramp with its sign slipped: 1 at 70 C falling to 0 at the phase temperature
_temp_factor_falling(T_c, phase_temp) ==
    IF ~T_c.ok THEN 0
    ELSE pow_1_5(Max2(0, Min2(Max2(1, phase_temp - RAMP_START_C), phase_temp - T_c.val)),
                 Max2(1, phase_temp - RAMP_START_C))

\* _temp_factor, in parts per million: t = clamp01((T - 70) / (phase - 70)),
\* t ** 1.5; the clamp is taken on the numerator T - 70, in degrees.
\* max(1e-9, phase - 70) is phase - 70 for every phase temperature of the table
\* (30 or 35); the floor 1 stands for the 1e-9 the integers cannot hold.
_temp_factor(T_c, phase_temp) ==
    IF ~T_c.ok THEN 0
    ELSE pow_1_5(Max2(0, Min2(Max2(1, phase_temp - RAMP_START_C), T_c.val - RAMP_START_C)),
                 Max2(1, phase_temp - RAMP_START_C))

\* at_or_above_phase: on whole degrees T >= phase - 1e-9 is T >= phase
at_or_above_phase(T_c, phase_temp) == T_c.ok /\ T_c.val >= phase_temp

\* the physics cap m_phys_evap_g, in centigrams.  Energies are in centijoules:
\* E_in = power * t_s * (efficiency percent), Q = water_kg * c * deltaT.
m_phys_evap(water_ml, phase_temp, cooking_time_min, T_c, power_W, efficiency, T_initial_C) ==
    LET t_s      == cooking_time_min * 60
        E_in     == power_W * t_s * efficiency
        deltaT_C == Max2(0, phase_temp - T_initial_C)
        Q_sens   == (water_ml * SPECIFIC_HEAT_WATER * deltaT_C) \div 10
    IN  IF ~at_or_above_phase(T_c, phase_temp) THEN 0
        ELSE IF E_in <= Q_sens THEN 0
        ELSE Max2(0, (E_in - Q_sens) \div (LATENT_HEAT_WATER \div 1000))

\* the ratio inverted: base_time / cooking_time_min
evap_fraction_inverted(base, cooking_time_min, tf) ==
    Max2(0, Min2(PPM, (base.fraction * base.base_time * tf) \div (100 * cooking_time_min)))

\* evap_fraction, in parts per million, clamped to [0, 1]
evap_fraction(base, cooking_time_min, tf) ==
    Max2(0, Min2(PPM, (base.fraction * cooking_time_min * tf) \div (100 * base.base_time)))

\* the empirical limit m_emp_evap_g, in centigrams
m_emp_evap(water_ml, base, phase_temp, cooking_time_min, T_c) ==
    (water_ml * evap_fraction(base, cooking_time_min, _temp_factor(T_c, phase_temp)))
        \div (PPM \div RES)

\* the merge takes the largest of the bounds
final_merge_max(above, water_g, m_phys_evap_g, m_emp_evap_g) ==
    IF above THEN Max2(water_g, Max2(m_phys_evap_g, m_emp_evap_g))
    ELSE Max2(water_g, m_emp_evap_g)

\* the physics cap is applied below the phase temperature too
final_merge_always_physics(above, water_g, m_phys_evap_g, m_emp_evap_g) ==
    Min2(water_g, Min2(m_phys_evap_g, m_emp_evap_g))

\* the final merge, m_final_g
final_merge(above, water_g, m_phys_evap_g, m_emp_evap_g) ==
    IF above THEN Min2(water_g, Min2(m_phys_evap_g, m_emp_evap_g))
    ELSE Min2(water_g, m_emp_evap_g)

\* calculate_evaporated_water_hybrid: the evaporated mass, in centigrams
calculate_evaporated_water_hybrid(water_ml, cooking_method, cooking_time_min, cooking_temperature_c, power_W, efficiency, T_initial_C) ==
    IF \/ cooking_method \notin DOMAIN EVAPORATION_BASE
       \/ cooking_method \notin DOMAIN PHASE_TEMP_BY_METHOD
       \/ water_ml <= 0 \/ cooking_time_min <= 0 \/ power_W <= 0 \/ efficiency <= 0
    THEN 0
    ELSE LET base       == EVAPORATION_BASE[cooking_method]
             phase_temp == PHASE_TEMP_BY_METHOD[cooking_method]
             m_phys     == m_phys_evap(water_ml, phase_temp, cooking_time_min,
                                       cooking_temperature_c, power_W, efficiency,
                                       T_initial_C)
             m_emp      == m_emp_evap(water_ml, base, phase_temp, cooking_time_min,
                                      cooking_temperature_c)
         IN  Max2(0, final_merge(at_or_above_phase(cooking_temperature_c, phase_temp),
                                 water_ml * RES, m_phys, m_emp))

---------------------------------------------------------------------------
(* The "Calculate Evaporation" button handler *)

\* st.error / st.warning / st.success, with what the message is about
Msg(level, what) == [level |-> level, what |-> what]

NoCall == [called |-> FALSE, water_ml |-> 0, cooking_method |-> "",
           cooking_time_min |-> 0, cooking_temperature_c |-> Raised("None"),
           evap_ml |-> 0]

\* the text area's content: text that is no JSON, JSON that is no object, or an
\* object with the four keys the handler reads (each a value or Absent)
NotJson   == [json |-> "invalid", cooking_style |-> "", cooking_time |-> Absent,
              cooking_temperature |-> Absent, ingredients |-> Absent, items |-> <<>>]
NotADish  == [json |-> "nonobject", cooking_style |-> "", cooking_time |-> Absent,
              cooking_temperature |-> Absent, ingredients |-> Absent, items |-> <<>>]
Dish(style, time, temp, ingr, its) ==
    [json |-> "object", cooking_style |-> style, cooking_time |-> time,
     cooking_temperature |-> temp, ingredients |-> ingr, items |-> its]

\* the water sum loop: a running total, or the exception that ends the loop
RECURSIVE sum_direct_water(_)
sum_direct_water(its) ==
    IF its = <<>> THEN Value(0)
    ELSE LET before == sum_direct_water(SubSeq(its, 1, Len(its) - 1))
             it     == its[Len(its)]
         IN  IF ~before.ok THEN before
             ELSE IF ~it.isDict THEN Raised("AttributeError")
             ELSE LET w == _contains_water(get(it.name, Str(<<>>)))
                  IN  IF ~w.ok THEN Raised(w.err)
                      ELSE IF w.val
                           THEN Value(before.val + _water_ml_from_item(it))
                           ELSE before

\* what one run of the handler leaves: the messages, the water sum, the core call
Outcome(m, w, c) == [msgs |-> m, water |-> w, core |-> c]

\* dish_data.get("ingredients", []) as the loop sees it: the entries of a list,
\* none for an absent key
ingredients_of(c) == IF c.ingredients.kind = "absent" THEN <<>> ELSE c.items

\* the temperature check is dropped
validate_no_temperature_check(cooking_method, cooking_time_min, cooking_temp_c) ==
    IF cooking_method \notin ALLOWED_COOKING_METHODS THEN "method"
    ELSE IF cooking_time_min <= 0 THEN "time"
    ELSE "ok"

\* the if / elif chain before the water sum: what the st.error is about, or "ok"
validate(cooking_method, cooking_time_min, cooking_temp_c) ==
    IF cooking_method \notin ALLOWED_COOKING_METHODS THEN "method"
    ELSE IF cooking_time_min <= 0 THEN "time"
    ELSE IF ~cooking_temp_c.ok THEN "temperature"
    ELSE "ok"

\* the zero-water case is reported with st.error
zero_water_message_as_error == Msg("error", "no_water")

\* st.warning("No direct water found ...")
zero_water_message == Msg("warning", "no_water")

\* the if / elif / else chain of the handler, given what the parsers and the
\* water sum loop returned; every exception ends in the st.error of the
\* except clause (iterating a null "ingredients", item.get on an entry that
\* is no object and .strip() on a name that is no str raise)
handler_branches(c, cooking_method, cooking_time_min, cooking_temp_c, total) ==
    IF validate(cooking_method, cooking_time_min, cooking_temp_c) # "ok"
    THEN Outcome(<<Msg("error", validate(cooking_method, cooking_time_min, cooking_temp_c))>>,
                 0, NoCall)
    ELSE IF c.ingredients.kind \notin {"absent", "other"} \/ ~total.ok
    THEN Outcome(<<Msg("error", "exception")>>, 0, NoCall)
    ELSE IF total.val <= 0
    THEN Outcome(<<zero_water_message>>, total.val, NoCall)
    ELSE Outcome(<<Msg("success", "evaporated")>>, total.val,
                 [called |-> TRUE, water_ml |-> total.val,
                  cooking_method |-> cooking_method,
                  cooking_time_min |-> cooking_time_min,
                  cooking_temperature_c |-> cooking_temp_c,
                  evap_ml |-> calculate_evaporated_water_hybrid(
                      total.val, cooking_method, cooking_time_min,
                      cooking_temp_c, GENERIC_POWER_W, GENERIC_EFFICIENCY,
                      INITIAL_TEMP_C)])

\* the body of "if st.button(...)": json.loads and dish_data.get raise on text
\* that is no JSON object; otherwise the fields are parsed, each once, and the
\* chain above runs on the parsed values
handler(c) ==
    IF c.json # "object"
    THEN Outcome(<<Msg("error", "exception")>>, 0, NoCall)
    ELSE CHOOSE out \in
            { handler_branches(c, c.cooking_style, cooking_time_min, cooking_temp_c, total) :
                cooking_time_min \in {_parse_minutes(get_or_none(c.cooking_time))},
                cooking_temp_c \in {_parse_temperature(get_or_none(c.cooking_temperature))},
                total \in {sum_direct_water(ingredients_of(c))} } : TRUE

---------------------------------------------------------------------------
(* Bounds and input sets *)

MaxTextLen     == 4
MaxQty         == 3
MaxTime        == 8
MaxIngredients == 2

SeqsUpTo(S, n) == UNION {[1..k -> S] : k \in 0..n}

\* cooking_time texts: every text of up to MaxTextLen characters over a small
\* alphabet, the examples of the docstring and of the specification, and
\* values that are no str
ParseAlphabet == {"1", "2", " ", "h", "m", "x"}
ParseSamples ==
    { Str(<<"1", "h", " ", "2", "0", "m">>),
      Str(<<"4", "5", " ", "m", "i", "n", "u", "t", "e", "s">>),
      Str(<<"1", "0", " ", "m", "i", "n">>),
      Str(<<"3", "5", " ", "m", "i", "n", "u", "t", "e", "s">>),
      Str(<<"1", "8">>),
      Str(<<"1", " ", "h", " ", "5", " ", "m">>),
      Str(<<"1", "H", " ", "2", "0", "M">>),
      Str(<<"2", " ", "h", "o", "u", "r", "s", " ", "3", "0">>),
      Str(<<"a", "t", " ", "9", " ", "f", "o", "r", " ", "3", "\t", "m">>),
      Str(<<"s", "o", "o", "n">>),
      None, Num(0), Num(45), Num(-5), Other }
ParseInputs == {Str(cs) : cs \in SeqsUpTo(ParseAlphabet, MaxTextLen)} \cup ParseSamples

\* ingredient entries for _water_ml_from_item
U(cs) == Str(cs)
UnitSamples ==
    { Absent, None, Num(5),
      U(<<>>), U(<<"m", "l">>), U(<<"g">>), U(<<"c", "u", "p">>),
      U(<<"t", "b", "s", "p">>),
      U(<<"t", "a", "b", "l", "e", "s", "p", "o", "o", "n">>),
      U(<<"t", "s", "p">>),
      U(<<"t", "e", "a", "s", "p", "o", "o", "n">>),
      U(<<"l">>), U(<<"L">>), U(<<"l", "i", "t", "e", "r">>),
      U(<<"l", "i", "t", "e", "r", "s">>), U(<<" ", "L", "i", "t", "e", "r">>),
      U(<<" ", "C", "u", "p", " ">>), U(<<"M", "L">>), U(<<"T", "s", "p">>),
      U(<<"T", "B", "S", "P", " ">>),
      U(<<"k", "g">>), U(<<"o", "z">>), U(<<"c", "u", "p", "s">>),
      U(<<"m", " ", "l">>) }
QuantitySamples ==
    {Num(q) : q \in (0 - 1)..MaxQty} \cup
    { Num(500), Str(<<"2">>), Str(<<" ", "3", " ">>), Str(<<"-", "4">>),
      Str(<<"a", "b", "c">>), Str(<<>>), None, Absent, Other }
UnitItems ==
    {Item(Str(<<"W", "a", "t", "e", "r">>), q, u) : q \in QuantitySamples, u \in UnitSamples}
        \cup {NotAnObject}

\* arguments of calculate_evaporated_water_hybrid
NoTemp == Raised("None")
HybridWaters  == {0 - 50, 0, 500, 1000}
HybridMethods == ALLOWED_COOKING_METHODS \cup {"Frying"}
HybridTimes   == ((0 - 1)..MaxTime) \cup {12, 60, 100, 120}
HybridTemps   == {NoTemp} \cup {Value(T) : T \in {60, 70, 85, 99, 100, 104, 105, 110}}
\* <<power_W, efficiency (percent), T_initial_C>>
HybridHeaters ==
    { <<GENERIC_POWER_W, GENERIC_EFFICIENCY, INITIAL_TEMP_C>>,
      <<500, GENERIC_EFFICIENCY, INITIAL_TEMP_C>>,
      <<GENERIC_POWER_W, 90, 110>>,
      <<0, GENERIC_EFFICIENCY, INITIAL_TEMP_C>>,
      <<GENERIC_POWER_W, 0 - 10, INITIAL_TEMP_C>> }
HybridCalls ==
    { [water_ml |-> w, cooking_method |-> m, cooking_time_min |-> d,
       cooking_temperature_c |-> T, power_W |-> h[1], efficiency |-> h[2],
       T_initial_C |-> h[3]] :
      w \in HybridWaters, m \in HybridMethods, d \in HybridTimes,
      T \in HybridTemps, h \in HybridHeaters }

\* the call as the code makes it
Hybrid(a) ==
    calculate_evaporated_water_hybrid(a.water_ml, a.cooking_method, a.cooking_time_min,
                                      a.cooking_temperature_c, a.power_W, a.efficiency,
                                      a.T_initial_C)

NoArgs == [water_ml |-> 0, cooking_method |-> "", cooking_time_min |-> 0,
           cooking_temperature_c |-> NoTemp, power_W |-> 0, efficiency |-> 0,
           T_initial_C |-> 0]
NoPrev == [cooking_time_min |-> 0, cooking_temperature_c |-> NoTemp, ret |-> 0]

\* contents of the text area
N_Water      == Str(<<"W", "a", "t", "e", "r">>)
N_WaterSteam == Str(<<" ", "W", "A", "T", "E", "R", " ", "(", "s", "t", "e", "a", "m", ")">>)
N_Stock      == Str(<<"C", "h", "i", "c", "k", "e", "n", " ", "S", "t", "o", "c", "k">>)
N_Wat_er     == Str(<<"W", "a", "t", " ", "e", "r">>)
U_ml         == Str(<<"m", "l">>)
U_cup        == Str(<<"c", "u", "p">>)
U_l          == Str(<<"l">>)
ItemSamples ==
    { Item(N_Water, Num(500), U_ml),
      Item(N_WaterSteam, Num(2), U_cup),
      Item(N_Stock, Num(300), U_ml),
      Item(N_Wat_er, Num(100), U_ml),
      Item(N_Water, Num(0 - 500), U_ml),
      Item(N_Water, Num(1), U_l),
      Item(Num(7), Num(100), U_ml),
      NotAnObject }
StyleSamples == ALLOWED_COOKING_METHODS \cup {"Frying", "None"}
TimeSamples ==
    { Str(<<"1", "2", " ", "m", "i", "n">>), Str(<<"1", "h", " ", "2", "0", "m">>),
      Str(<<"0", " ", "m", "i", "n">>), Str(<<"s", "o", "o", "n">>), Absent }
TempSamples ==
    { Num(100), Str(<<"1", "0", "5", " ", "C">>), Str(<<"9", "4", "C">>),
      Str(<<"h", "o", "t">>), Absent }
---------------------------------------------------------------------------
(* Specifications *)

ParseIdle   == s = None /\ minutes = 0 /\ ppc = "idle"
UnitIdle    == item = NotAnObject /\ ml = 0 /\ upc = "idle"
HybridIdle  == call = NoArgs /\ ret = 0 /\ prev = NoPrev /\ lastOp = "idle"
HandlerIdle == click = NotJson /\ msgs = <<>> /\ direct_water_total_ml = 0 /\ core = NoCall

\* _parse_minutes applied to one argument
ParseInit == s \in ParseInputs /\ minutes = 0 /\ ppc = "ready"
             /\ UnitIdle /\ HybridIdle /\ HandlerIdle
ParseMinutes ==
    /\ ppc = "ready"
    /\ minutes' = _parse_minutes(s)
    /\ ppc' = "done"
    /\ UNCHANGED <<s, unitVars, hybridVars, handlerVars>>
ParseNext == ParseMinutes
ParseSpec == ParseInit /\ [][ParseNext]_vars

\* _water_ml_from_item applied to one ingredient entry
UnitInit == item \in UnitItems /\ ml = 0 /\ upc = "ready"
            /\ ParseIdle /\ HybridIdle /\ HandlerIdle
WaterMlFromItem ==
    /\ upc = "ready"
    /\ ml' = _water_ml_from_item(item)
    /\ upc' = "done"
    /\ UNCHANGED <<item, parseVars, hybridVars, handlerVars>>
UnitNext == WaterMlFromItem
UnitSpec == UnitInit /\ [][UnitNext]_vars

\* calculate_evaporated_water_hybrid: a call, then a second call that differs
\* from it in the cooking time alone, or in the cooking temperature alone
HybridInit == call \in HybridCalls /\ ret = 0 /\ prev = NoPrev /\ lastOp = "none"
              /\ ParseIdle /\ UnitIdle /\ HandlerIdle
Calculate ==
    /\ lastOp = "none"
    /\ ret' = Hybrid(call)
    /\ lastOp' = "calc"
    /\ UNCHANGED <<call, prev, parseVars, unitVars, handlerVars>>
Remember ==
    prev' = [cooking_time_min |-> call.cooking_time_min,
             cooking_temperature_c |-> call.cooking_temperature_c, ret |-> ret]
CalculateOtherTime ==
    /\ lastOp = "calc"
    /\ \E d \in HybridTimes : call' = [call EXCEPT !.cooking_time_min = d]
    /\ Remember
    /\ ret' = Hybrid(call')
    /\ lastOp' = "time"
    /\ UNCHANGED <<parseVars, unitVars, handlerVars>>
CalculateOtherTemperature ==
    /\ lastOp = "calc"
    /\ \E T \in HybridTemps : call' = [call EXCEPT !.cooking_temperature_c = T]
    /\ Remember
    /\ ret' = Hybrid(call')
    /\ lastOp' = "temperature"
    /\ UNCHANGED <<parseVars, unitVars, handlerVars>>
HybridNext == Calculate \/ CalculateOtherTime \/ CalculateOtherTemperature
HybridSpec == HybridInit /\ [][HybridNext]_vars

\* the page: the text area holds some content; pressing the button reruns the
\* script with st.button(...) true, which runs the handler; any later rerun of
\* the script (st.button(...) false) shows no message
HandlerInit ==
    /\ \/ click \in {NotJson, NotADish}
       \/ \E st \in StyleSamples, tm \in TimeSamples, tp \in TempSamples :
             \* an "ingredients" list of up to MaxIngredients entries,
             \* no "ingredients" key, or "ingredients": null
             \/ \E its \in SeqsUpTo(ItemSamples, MaxIngredients) :
                   click = Dish(st, tm, tp, Other, its)
             \/ \E ing \in {Absent, None} :
                   click = Dish(st, tm, tp, ing, <<>>)
    /\ msgs = <<>> /\ direct_water_total_ml = 0 /\ core = NoCall
    /\ ParseIdle /\ UnitIdle /\ HybridIdle
PressCalculate ==
    /\ msgs = <<>>
    /\ \E out \in {handler(click)} :
          /\ msgs' = out.msgs
          /\ direct_water_total_ml' = out.water
          /\ core' = out.core
    /\ UNCHANGED <<click, parseVars, unitVars, hybridVars>>
Rerun ==
    /\ msgs # <<>>
    /\ msgs' = <<>>
    /\ direct_water_total_ml' = 0
    /\ core' = NoCall
    /\ UNCHANGED <<click, parseVars, unitVars, hybridVars>>
HandlerNext == PressCalculate \/ Rerun
HandlerSpec == HandlerInit /\ [][HandlerNext]_vars

---------------------------------------------------------------------------
(* Claims about calculate_evaporated_water_hybrid (HybridSpec) *)

Called == lastOp \in {"calc", "time", "temperature"}

\* C1, as stated: for all inputs, water_ml of any sign included, the value
\* returned lies in [0, water_ml].
C1_ResultWithinWater ==
    Called => (0 <= ret /\ ret <= call.water_ml * RES)

\* C1, amended: the value returned is at least 0 and at most max(0, water_ml);
\* it lies in [0, water_ml] whenever water_ml >= 0 and is 0 for a negative
\* water_ml.
C1_ResultWithinNonNegativeWater ==
    Called => (0 <= ret /\ ret <= Max2(0, call.water_ml) * RES)

\* a call whose result is all of the water: both bounds reach the water mass
C1_Witness ==
    lastOp = "calc" /\ call.water_ml > 0 /\ ret = call.water_ml * RES

\* C2: of two calls that differ only in cooking_time_min, the one with the
\* shorter time never returns more than the one with the longer time.
C2_MonotoneInDuration ==
    (lastOp = "time" /\ prev.cooking_time_min <= call.cooking_time_min)
        => prev.ret <= ret

\* a longer time that evaporates strictly more than a shorter one that already
\* evaporated something
C2_Witness ==
    /\ lastOp = "time"
    /\ prev.cooking_time_min < call.cooking_time_min
    /\ 0 < prev.ret /\ prev.ret < ret

\* the inputs the function accepts
C9_Accepted ==
    /\ call.cooking_method \in ALLOWED_COOKING_METHODS
    /\ call.water_ml > 0 /\ call.cooking_time_min > 0
    /\ call.power_W > 0 /\ call.efficiency > 0

\* the physics cap as the claim words it, in centigrams: 0 unless the energy
\* input power * seconds * efficiency exceeds the sensible heat
\* mass * specific heat * max(0, phase - initial), else the excess over the
\* latent heat (energies in centijoules, 2257 J per gram)
C9_PhysicsCap ==
    LET phase    == PHASE_TEMP_BY_METHOD[call.cooking_method]
        energy   == call.power_W * (call.cooking_time_min * 60) * call.efficiency
        rise     == IF phase > call.T_initial_C THEN phase - call.T_initial_C ELSE 0
        sensible == (call.water_ml * 4186 * rise) \div 10
    IN  IF energy <= sensible THEN 0 ELSE (energy - sensible) \div 2257

C9_EmpiricalBound ==
    m_emp_evap(call.water_ml, EVAPORATION_BASE[call.cooking_method],
               PHASE_TEMP_BY_METHOD[call.cooking_method], call.cooking_time_min,
               call.cooking_temperature_c)

C9_AtOrAbovePhase ==
    /\ call.cooking_temperature_c.ok
    /\ call.cooking_temperature_c.val >= PHASE_TEMP_BY_METHOD[call.cooking_method]

\* C9: for accepted inputs, at or above the phase temperature the result is
\* min(water, physics cap, empirical bound); below it the result is
\* min(water, empirical bound), whatever the heater's power, efficiency and the
\* initial temperature are.
C9_MergeRule ==
    (Called /\ C9_Accepted) =>
        IF C9_AtOrAbovePhase
        THEN ret = Min2(call.water_ml * RES, Min2(C9_PhysicsCap, C9_EmpiricalBound))
        ELSE /\ ret = Min2(call.water_ml * RES, C9_EmpiricalBound)
             /\ \A h \in {x \in HybridHeaters : x[1] > 0 /\ x[2] > 0} :
                    Hybrid([call EXCEPT !.power_W = h[1], !.efficiency = h[2],
                                        !.T_initial_C = h[3]]) = ret

\* at or above the phase temperature, a positive physics cap that is the
\* smallest of the three
C9_Witness ==
    /\ lastOp = "calc" /\ C9_Accepted /\ C9_AtOrAbovePhase
    /\ 0 < ret /\ ret = C9_PhysicsCap
    /\ ret < C9_EmpiricalBound /\ ret < call.water_ml * RES

\* C10, as stated: of two calls that differ only in cooking_temperature_c, the
\* one with the lower temperature never returns more than the one with the
\* higher temperature.
C10_MonotoneInTemperature ==
    ( /\ lastOp = "temperature"
      /\ prev.cooking_temperature_c.ok /\ call.cooking_temperature_c.ok
      /\ prev.cooking_temperature_c.val <= call.cooking_temperature_c.val )
        => prev.ret <= ret

C10_SameSideOfPhase ==
    call.cooking_method \in ALLOWED_COOKING_METHODS =>
        LET phase == PHASE_TEMP_BY_METHOD[call.cooking_method]
        IN  (prev.cooking_temperature_c.val >= phase)
                <=> (call.cooking_temperature_c.val >= phase)

\* C10, amended: of two calls that differ only in cooking_temperature_c and
\* whose temperatures are both below, or both at or above, the method's phase
\* temperature, the one with the lower temperature never returns more.
C10_MonotoneOnOneSideOfPhase ==
    ( /\ lastOp = "temperature"
      /\ prev.cooking_temperature_c.ok /\ call.cooking_temperature_c.ok
      /\ prev.cooking_temperature_c.val <= call.cooking_temperature_c.val
      /\ C10_SameSideOfPhase )
        => prev.ret <= ret

\* two temperatures below the phase temperature, the higher one evaporating
\* strictly more
C10_Witness ==
    /\ lastOp = "temperature" /\ C9_Accepted
    /\ prev.cooking_temperature_c.ok /\ call.cooking_temperature_c.ok
    /\ prev.cooking_temperature_c.val < call.cooking_temperature_c.val
    /\ call.cooking_temperature_c.val < PHASE_TEMP_BY_METHOD[call.cooking_method]
    /\ 0 < prev.ret /\ prev.ret < ret

---------------------------------------------------------------------------
(* Claims about _water_ml_from_item (UnitSpec) *)

C4_LiterUnits ==
    { Str(<<"l">>), Str(<<"L">>), Str(<<"l", "i", "t", "e", "r">>),
      Str(<<"l", "i", "t", "e", "r", "s">>), Str(<<" ", "L", "i", "t", "e", "r">>) }

\* C4, as stated: an entry with numeric quantity q and unit "l", or a unit
\* that begins with "liter", converts to q * 1000.
C4_LitersTimes1000 ==
    (upc = "done" /\ item.isDict /\ item.quantity.kind = "int"
        /\ item.unit \in C4_LiterUnits)
        => ml = item.quantity.n * 1000

\* C4, amended: an entry with numeric quantity q and unit "l", or a unit that
\* begins with "liter", converts to 0: liters are not in the table of the
\* function and are ignored like any unknown unit.
C4_LitersContributeZero ==
    (upc = "done" /\ item.isDict /\ item.quantity.kind = "int"
        /\ item.unit \in C4_LiterUnits)
        => ml = 0

\* 2 l of water converted
C4_Witness ==
    upc = "done" /\ item.quantity = Num(2) /\ item.unit = Str(<<"l">>) /\ ml = 0

\* the factor the table gives each unit as it is written in the entry
C5_Same  == { Absent, Str(<<>>), Str(<<"m", "l">>), Str(<<"g">>), Str(<<"M", "L">>) }
C5_Cup   == { Str(<<"c", "u", "p">>), Str(<<" ", "C", "u", "p", " ">>) }
C5_Tbsp  == { Str(<<"t", "b", "s", "p">>), Str(<<"T", "B", "S", "P", " ">>),
              Str(<<"t", "a", "b", "l", "e", "s", "p", "o", "o", "n">>) }
C5_Tsp   == { Str(<<"t", "s", "p">>), Str(<<"T", "s", "p">>),
              Str(<<"t", "e", "a", "s", "p", "o", "o", "n">>) }
C5_Factor(u) ==
    IF u \in C5_Same THEN 1
    ELSE IF u \in C5_Cup THEN 240
    ELSE IF u \in C5_Tbsp THEN 15
    ELSE IF u \in C5_Tsp THEN 5
    ELSE 0

\* the number a quantity stands for; a missing quantity is 0, and a quantity
\* that is no number (text without a numeral, null, a list) converts to nothing
C5_Numeric(q) ==
    q.kind \in {"int", "absent"}
        \/ q \in {Str(<<"2">>), Str(<<" ", "3", " ">>), Str(<<"-", "4">>)}
C5_Number(q) ==
    CASE q.kind = "int"            -> q.n
      [] q.kind = "absent"         -> 0
      [] q = Str(<<"2">>)          -> 2
      [] q = Str(<<" ", "3", " ">>) -> 3
      [] q = Str(<<"-", "4">>)     -> 0 - 4

\* C5: for every entry whose unit is not a liter unit, the result is the
\* quantity times the factor of its unit (trimmed, case-insensitive): 1 for
\* "", "ml", "g"; 240 for "cup"; 15 for "tbsp", "tablespoon"; 5 for "tsp",
\* "teaspoon"; and the result is 0 for any other unit, for a quantity that is
\* no number and for an entry that is no object.  The function returns for
\* every input.
C5_UnitTable ==
    (upc = "done" /\ item.unit \notin C4_LiterUnits) =>
        IF item.isDict /\ C5_Numeric(item.quantity)
        THEN ml = C5_Number(item.quantity) * C5_Factor(item.unit)
        ELSE ml = 0

\* 2 cups, written " Cup ", are 480 ml
C5_Witness ==
    /\ upc = "done" /\ item.quantity = Num(2)
    /\ item.unit = Str(<<" ", "C", "u", "p", " ">>) /\ ml = 480

---------------------------------------------------------------------------
(* Claims about _parse_minutes (ParseSpec) *)

\* t[i..j] is a whole run of digits followed by whitespace t[j+1..k-1] and by
\* one of the letters cs at k
C6_MarkerAt(t, cs, i, j, k) ==
    /\ i <= j /\ j < k
    /\ \A p \in i..j : IsDigit(t[p])
    /\ (i = 1 \/ ~IsDigit(t[i - 1]))
    /\ \A p \in (j + 1)..(k - 1) : IsSpace(t[p])
    /\ t[k] \in cs

C6_Markers(t, cs) ==
    { m \in (1..Len(t)) \X (1..Len(t)) \X (1..Len(t)) : C6_MarkerAt(t, cs, m[1], m[2], m[3]) }

\* the decimal number written by t[i..j], most significant digit first
RECURSIVE C6_Decimal(_, _, _, _)
C6_Decimal(t, i, j, acc) ==
    IF i > j THEN acc ELSE C6_Decimal(t, i + 1, j, acc * 10 + DigitVal(t[i]))

\* the number of the first marker, 0 when there is none
C6_MarkerValue(t, cs) ==
    IF C6_Markers(t, cs) = {} THEN 0
    ELSE LET m == CHOOSE x \in C6_Markers(t, cs) : \A y \in C6_Markers(t, cs) : x[1] <= y[1]
         IN  C6_Decimal(t, m[1], m[2], 0)

\* the first bare integer of the text, 0 when it has no digit
C6_FirstInteger(t) ==
    IF \A p \in 1..Len(t) : ~IsDigit(t[p]) THEN 0
    ELSE LET i == CHOOSE x \in 1..Len(t) :
                      IsDigit(t[x]) /\ \A y \in 1..(x - 1) : ~IsDigit(t[y])
             j == CHOOSE x \in i..Len(t) :
                      /\ \A y \in i..x : IsDigit(t[y])
                      /\ (x = Len(t) \/ ~IsDigit(t[x + 1]))
         IN  C6_Decimal(t, i, j, 0)

C6_Expected(t) ==
    IF C6_Markers(t, {"h", "H"}) # {} \/ C6_Markers(t, {"m", "M"}) # {}
    THEN C6_MarkerValue(t, {"h", "H"}) * 60 + C6_MarkerValue(t, {"m", "M"})
    ELSE C6_FirstInteger(t)

\* C6: when the text holds an hour marker (digits, optional whitespace, "h")
\* or a minute marker (digits, optional whitespace, "m"), in either case of
\* the letter, the result is hours * 60 + minutes, a missing part counting 0
\* and any other integer ignored; otherwise it is the first bare integer; a
\* text without digits, None and "" give 0.  So "1h 20m" gives 80,
\* "45 minutes" gives 45 and "" gives 0.
C6_ParseMinutes ==
    ppc = "done" =>
        /\ minutes = C6_Expected(str(s))
        /\ (s \in {None, Str(<<>>)} => minutes = 0)
        /\ (s = Str(<<"1", "h", " ", "2", "0", "m">>) => minutes = 80)
        /\ (s = Str(<<"4", "5", " ", "m", "i", "n", "u", "t", "e", "s">>) => minutes = 45)

\* "2 hours 30": the hour marker wins and the bare 30 is ignored
C6_Witness ==
    /\ ppc = "done"
    /\ s = Str(<<"2", " ", "h", "o", "u", "r", "s", " ", "3", "0">>)
    /\ minutes = 120

---------------------------------------------------------------------------
(* Claims about the button handler (HandlerSpec) *)

Pressed == msgs # <<>>

\* the sample times that hold a positive number of minutes, the sample
\* temperatures that hold a number
C3_PositiveTimes ==
    { Str(<<"1", "2", " ", "m", "i", "n">>), Str(<<"1", "h", " ", "2", "0", "m">>) }
C3_NumericTemps ==
    { Num(100), Str(<<"1", "0", "5", " ", "C">>), Str(<<"9", "4", "C">>) }

\* C3: the core is called only when the JSON parsed to an object, the cooking
\* style is allowed, the cooking time is positive, the temperature parsed and
\* the water sum is positive; a press with an absent or unparseable
\* temperature ends in an error and no call of the core.
C3_CoreOnlyAfterValidation ==
    /\ core.called =>
          /\ click.json = "object"
          /\ click.cooking_style \in ALLOWED_COOKING_METHODS
          /\ click.cooking_time \in C3_PositiveTimes
          /\ click.cooking_temperature \in C3_NumericTemps
          /\ core.cooking_time_min > 0
          /\ core.cooking_temperature_c.ok
          /\ core.water_ml > 0
          /\ core.water_ml = direct_water_total_ml
    /\ (Pressed /\ click.cooking_temperature \notin C3_NumericTemps) =>
          /\ ~core.called
          /\ Len(msgs) = 1 /\ msgs[1].level = "error"

\* the core called for 1h 20m at 94 C with 500 ml and 2 cups of water
C3_Witness ==
    /\ core.called
    /\ core.cooking_time_min = 80
    /\ core.cooking_temperature_c = Value(94)
    /\ core.water_ml = 980
    /\ msgs = <<Msg("success", "evaporated")>>

\* the name holds the letters w, a, t, e, r in a row, in either case
C7_Letters == << {"w", "W"}, {"a", "A"}, {"t", "T"}, {"e", "E"}, {"r", "R"} >>
C7_NamesWater(it) ==
    /\ it.name.kind = "str"
    /\ \E off \in 0..(Len(it.name.chars) - 5) :
          \A k \in 1..5 : it.name.chars[off + k] \in C7_Letters[k]

\* the sum of _water_ml_from_item over the entries at the indices I
RECURSIVE C7_SumOver(_, _)
C7_SumOver(its, I) ==
    IF I = {} THEN 0
    ELSE LET i == CHOOSE x \in I : TRUE
         IN  _water_ml_from_item(its[i]) + C7_SumOver(its, I \ {i})

C7_LexicalSum(its) ==
    C7_SumOver(its, {i \in 1..Len(its) : C7_NamesWater(its[i])})

\* the water sum loop ran to its end
C7_Aggregated == Pressed /\ msgs[1].what \in {"no_water", "evaporated"}

\* C7: the aggregated water is the sum of _water_ml_from_item over exactly the
\* entries whose name contains "water" in any case; the other entries add
\* nothing, and a list without such an entry aggregates to 0.
C7_AggregationIsLexical ==
    C7_Aggregated =>
        /\ direct_water_total_ml = C7_LexicalSum(ingredients_of(click))
        /\ ((\A i \in 1..Len(ingredients_of(click)) :
                ~C7_NamesWater(ingredients_of(click)[i]))
            => direct_water_total_ml = 0)

\* Chicken Stock 300 ml and Water 500 ml aggregate to 500
C7_Witness ==
    /\ C7_Aggregated
    /\ click.items = <<Item(N_Stock, Num(300), U_ml), Item(N_Water, Num(500), U_ml)>>
    /\ direct_water_total_ml = 500

\* an entry on which the loop raises: item.get on what is no object, .strip()
\* on a name that is a number other than 0
C8_Raises(it) == ~it.isDict \/ (it.name.kind = "int" /\ it.name.n # 0)

C8_FieldsValid ==
    /\ click.json = "object"
    /\ click.cooking_style \in ALLOWED_COOKING_METHODS
    /\ click.cooking_time \in C3_PositiveTimes
    /\ click.cooking_temperature \in C3_NumericTemps

C8_SumCompletes ==
    /\ click.ingredients.kind \in {"absent", "other"}
    /\ \A i \in 1..Len(ingredients_of(click)) : ~C8_Raises(ingredients_of(click)[i])

\* C8: a press whose fields are valid and whose water sum is <= 0 emits the
\* warning and nothing else; a press whose method, time or temperature fails
\* validation emits one error about that field and no warning.
C8_ZeroWaterIsWarning ==
    Pressed =>
        /\ (C8_FieldsValid /\ C8_SumCompletes
                /\ C7_LexicalSum(ingredients_of(click)) <= 0)
            => msgs = <<Msg("warning", "no_water")>>
        /\ (click.json = "object" /\ ~C8_FieldsValid)
            => /\ Len(msgs) = 1
               /\ msgs[1].level = "error"
               /\ msgs[1].what \in {"method", "time", "temperature"}

\* valid fields and only Chicken Stock in the list: the warning alone
C8_Witness ==
    /\ C8_FieldsValid
    /\ click.items = <<Item(N_Stock, Num(300), U_ml)>>
    /\ msgs = <<Msg("warning", "no_water")>>
    /\ ~core.called

===========================================================================
